---- MODULE Spec2Model ----
(***************************************************************************)
(* Model of main.go of MennoNij/conductor: the BMS poll sequencer readBMS  *)
(* with its notification closure, and the frame decoders it calls.         *)
(*                                                                         *)
(* Conventions.  A Go byte slice is a record [arr, len]: arr is the        *)
(* backing array from the slice's first element (so cap = Len(arr)) and    *)
(* len its length.  Go index i is TLA+ index i+1.  A Go integer (int64,    *)
(* int, uint32 converted to int) is its 64-bit two's-complement bit        *)
(* pattern, a tuple of 8 bytes, most significant first: TLC's integers     *)
(* are 32 bits wide and cannot hold the values of a 4-byte field.          *)
(***************************************************************************)
EXTENDS Integers, Sequences, FiniteSets, TLC

VARIABLES
    intBits,      \* width of Go's int in this build: 32 or 64
    order,        \* order in which `range pqCommands` yields the keys
    idx,          \* position of the current iteration in order (1-based)
    pc,           \* where readBMS is: start, enable, write, sleep, close, done, crashed
    installed,    \* names captured by the closures the characteristic will call
    window,       \* commands written and not yet unsubscribed (AwaitingResponse)
    subs,         \* per command: calls of EnableNotifications(notificationHandler)
    writes,       \* per command: calls of WriteWithoutResponse
    windows,      \* per command: successful writes (windows opened)
    unsubs,       \* per command: calls of EnableNotifications(nil)
    got,          \* per command: notifications delivered while its window was open
    decodedIn,    \* per command: records printed while its window was open
    reports,      \* per command: kinds of lines readBMS printed for it
    delivered,    \* notifications delivered so far in this pass
    last,         \* the last delivery: buffer, closure, open window, decoder, result
    passes        \* the iteration orders of the earlier calls of readBMS

vars == <<intBits, order, idx, pc, installed, window, subs, writes, windows,
          unsubs, got, decodedIn, reports, delivered, last, passes>>

----------------------------------------------------------------------------
(* Bounds of the model. *)

\* notifications the transport delivers during one pass
MaxNotifs == 2

\* calls of readBMS in one run of the program
MaxPasses == 2

----------------------------------------------------------------------------
(* Command catalog, main.go 19-23. *)

Commands == {"GET_VERSION", "GET_BATTERY_INFO", "SERIAL_NUMBER"}

pqCommands ==
    [c \in Commands |->
        CASE c = "GET_VERSION" ->
                <<"0","0","0","0","0","4","0","1","1","6","5","5","A","A","1","A">>
          [] c = "GET_BATTERY_INFO" ->
                <<"0","0","0","0","0","4","0","1","1","3","5","5","A","A","1","7">>
          [] c = "SERIAL_NUMBER" ->
                <<"0","0","0","0","0","4","0","1","1","0","5","5","A","A","1","4">>]

HexDigits ==
    <<"0","1","2","3","4","5","6","7","8","9","A","B","C","D","E","F">>

\* value of a hex digit, or -1 for any other character
HexVal(ch) ==
    IF \E k \in 1..16 : HexDigits[k] = ch
    THEN (CHOOSE k \in 1..16 : HexDigits[k] = ch) - 1
    ELSE -1

\* hex.DecodeString: [err, bytes]
HexDecodeString(s) ==
    IF Len(s) % 2 # 0 \/ \E k \in 1..Len(s) : HexVal(s[k]) < 0
    THEN [err |-> TRUE, bytes |-> <<>>]
    ELSE [err |-> FALSE,
          bytes |-> [k \in 1..(Len(s) \div 2) |->
                        16 * HexVal(s[2 * k - 1]) + HexVal(s[2 * k])]]

----------------------------------------------------------------------------
(* Go slices and integers. *)

Cap(data) == Len(data.arr)

\* data[lo:hi] of a slice whose bounds were checked by the caller
Slice(data, lo, hi) ==
    [arr |-> SubSeq(data.arr, lo + 1, Len(data.arr)), len |-> hi - lo]

\* the elements of a slice, as a sequence of len bytes
Bytes(data) == SubSeq(data.arr, 1, data.len)

Zero64 == <<0, 0, 0, 0, 0, 0, 0, 0>>

IsNegative(w) == w[1] >= 128

\* the 64-bit pattern of the 32-bit two's-complement value of 4 bytes
SignExtend32(b) ==
    (IF b[1] >= 128 THEN <<255, 255, 255, 255>> ELSE <<0, 0, 0, 0>>) \o b

\* Go's conversion int(x) of an int64: the identity where int is 64 bits wide,
\* truncation to the low 32 bits where it is 32 bits wide
IntOfInt64(w) ==
    IF intBits = 64 THEN w ELSE SignExtend32(SubSeq(w, 5, 8))

\* Go's conversion int(x) of a uint32 given by its 4 bytes
IntOfUint32(b) ==
    IF intBits = 64 THEN <<0, 0, 0, 0>> \o b ELSE SignExtend32(b)

RECURSIVE binaryToIntFrom(_, _)
\* the loop of binaryToInt: result = (result << 8) | int64(b) over bs
binaryToIntFrom(result, bs) ==
    IF bs = <<>> THEN result
    ELSE binaryToIntFrom(Tail(result) \o <<Head(bs)>>, Tail(bs))

binaryToInt(data) == binaryToIntFrom(Zero64, Bytes(data))

reverseBytes(data) ==
    [arr |-> [k \in 1..data.len |-> data.arr[data.len - k + 1]], len |-> data.len]

\* log.Fatalf unless 4 bytes (ok = FALSE); else the reversed bytes read as a
\* big-endian uint32 and converted to int
binaryToIntBigEndian(data) ==
    IF data.len # 4 THEN [ok |-> FALSE, val |-> Zero64]
    ELSE [ok |-> TRUE, val |-> IntOfUint32(Bytes(reverseBytes(data)))]

----------------------------------------------------------------------------
(* parseBatteryInfo, main.go 72-153. *)

\* least length of a battery frame: the end of the last field read
FrameLen == 104

\* the slice expressions data[lo:hi] of parseBatteryInfo, checked against cap
SliceAccesses ==
    { <<12, 16>>, <<8, 12>>, <<16, 48>>, <<48, 52>>, <<62, 64>>, <<64, 66>>,
      <<52, 54>>, <<54, 56>>, <<68, 72>>, <<76, 80>>, <<80, 84>>, <<84, 88>>,
      <<88, 90>>, <<90, 92>>, <<92, 96>>, <<96, 100>>, <<100, FrameLen>> }

\* the index expressions data[i] of parseBatteryInfo, checked against len
IndexAccesses == { 68 }

\* a slice or index expression of parseBatteryInfo is out of range
ParsePanics(data) ==
    \/ \E s \in SliceAccesses : s[2] > Cap(data)
    \/ \E i \in IndexAccesses : i >= data.len

\* DischargeSwitchStateOf testing the top nibble: data[68]>>4 >= 8
DischargeSwitchStateOf_TopNibble(b) == IF (b \div 16) >= 8 THEN 0 ELSE 1

\* main.go 110-114: data[68]>>7 >= 8
DischargeSwitchStateOf(b) == IF (b \div 128) >= 8 THEN 0 ELSE 1

\* the value of a Go integer that fits in 31 bits (its four high bytes are zero)
Val(w) == ((w[5] * 256 + w[6]) * 256 + w[7]) * 256 + w[8]

IsZero(w) == \A k \in 1..8 : w[k] = 0

----------------------------------------------------------------------------
(* Arithmetic on magnitudes: byte sequences, most significant first. *)

RECURSIVE AddFrom(_, _, _, _)
\* a + b from byte k down with carry c, for a and b of one length
AddFrom(a, b, k, c) ==
    IF k = 0 THEN <<>>
    ELSE LET t == a[k] + b[k] + c
         IN  Append(AddFrom(a, b, k - 1, t \div 256), t % 256)

AddMag(a, b) == AddFrom(a, b, Len(a), 0)

RECURSIVE MulSmallFrom(_, _, _, _)
\* a * d from byte k down with carry c, for a digit d: one byte longer than a
MulSmallFrom(a, d, k, c) ==
    IF k = 0 THEN <<c>>
    ELSE LET t == a[k] * d + c
         IN  Append(MulSmallFrom(a, d, k - 1, t \div 256), t % 256)

RECURSIVE MulFrom(_, _, _, _)
\* acc * 256^(Len(b) - k + 1) + a * b[k..], in Len(acc) bytes
MulFrom(a, b, k, acc) ==
    IF k > Len(b) THEN acc
    ELSE LET term == MulSmallFrom(a, b[k], Len(a), 0)
             pad == [j \in 1..(Len(acc) - Len(term)) |-> 0]
         IN  MulFrom(a, b, k + 1, AddMag(Tail(acc) \o <<0>>, pad \o term))

\* a * b, in Len(a) + Len(b) bytes
MulMag(a, b) == MulFrom(a, b, 1, [j \in 1..(Len(a) + Len(b)) |-> 0])

RECURSIVE DivSmallFrom(_, _, _, _)
\* long division of a by d from byte k on with remainder r: <<quotient, remainder>>
DivSmallFrom(a, d, k, r) ==
    IF k > Len(a) THEN <<<<>>, r>>
    ELSE LET t == r * 256 + a[k]
             rest == DivSmallFrom(a, d, k + 1, t % d)
         IN  << <<t \div d>> \o rest[1], rest[2] >>

RECURSIVE Strip(_)
\* a magnitude without its leading zero bytes
Strip(a) == IF a # <<>> /\ Head(a) = 0 THEN Strip(Tail(a)) ELSE a

\* the magnitude of a 64-bit two's-complement pattern
Mag64(w) ==
    IF IsNegative(w)
    THEN Strip(AddMag([k \in 1..8 |-> 255 - w[k]], <<0, 0, 0, 0, 0, 0, 0, 1>>))
    ELSE Strip(w)

\* main.go 98: math.Round(float64(Voltage) * Current / 10000 * 100) / 100 in exact
\* arithmetic: Voltage * current / 100000 rounded half away from zero, over 100
WattOf(Voltage, current) ==
    LET d == DivSmallFrom(MulMag(Mag64(Voltage), Mag64(current)), 100000, 1, 0)
        q == IF 2 * d[2] >= 100000
             THEN AddMag(<<0>> \o d[1], [k \in 1..(Len(d[1]) + 1) |->
                                            IF k = Len(d[1]) + 1 THEN 1 ELSE 0])
             ELSE d[1]
    IN  [ neg |-> (IsNegative(Voltage) # IsNegative(current)) /\ Strip(q) # <<>>,
          num |-> Strip(q),
          den |-> 100 ]

RECURSIVE BatteryPackFrom_Unswapped(_, _, _)
\* BatteryPackFrom reading each pair in the order of the slice
BatteryPackFrom_Unswapped(batPack, i, pack) ==
    IF i >= batPack.len THEN pack
    ELSE LET pair == [arr |-> <<batPack.arr[i + 1], batPack.arr[i + 2]>>, len |-> 2]
             cellVoltage == IntOfInt64(binaryToInt(pair))
             cell == (i \div 2) + 1
         IN  IF IsZero(cellVoltage)
             THEN BatteryPackFrom_Unswapped(batPack, i + 2, pack)
             ELSE BatteryPackFrom_Unswapped(batPack, i + 2,
                      [k \in (DOMAIN pack) \cup {cell} |->
                          IF k = cell THEN [num |-> Val(cellVoltage), den |-> 1000]
                          ELSE pack[k]])

RECURSIVE BatteryPackFrom(_, _, _)
\* main.go 84-91: the loop over batPack from offset i, BatteryPack so far in pack
BatteryPackFrom(batPack, i, pack) ==
    IF i >= batPack.len THEN pack
    ELSE LET pair == [arr |-> <<batPack.arr[i + 2], batPack.arr[i + 1]>>, len |-> 2]
             cellVoltage == IntOfInt64(binaryToInt(pair))
             cell == (i \div 2) + 1
         IN  IF IsZero(cellVoltage)
             THEN BatteryPackFrom(batPack, i + 2, pack)
             ELSE BatteryPackFrom(batPack, i + 2,
                      [k \in (DOMAIN pack) \cup {cell} |->
                          IF k = cell THEN [num |-> Val(cellVoltage), den |-> 1000]
                          ELSE pack[k]])

\* main.go 164-179
getBatteryStatus(Current, SOC, BatteryState) ==
    LET status == IF IsZero(Current.num) THEN "Standby"
                  ELSE IF ~IsNegative(Current.num) THEN "Charging"
                  ELSE "Discharging"
    IN  IF Val(SOC) >= 100 \/ Val(BatteryState) = 4 THEN "Full Charge" ELSE status

\* what a call of a decoder left: status "record" with the fields of the
\* *BatteryInfo returned, "panic" (index or slice out of range) or "fatal"
\* (log.Fatalf) when the process died in the call, "none" when none was called
Outcome(status, PackVoltage, Voltage, BatteryPack, current, DischargeSwitchState, BatteryState, SOC) ==
    [ status |-> status,
      PackVoltage |-> PackVoltage,
      Voltage |-> Voltage,
      BatteryPack |-> BatteryPack,
      Current |-> [num |-> current, den |-> 1000],
      Watt |-> WattOf(Voltage, current),
      DischargeSwitchState |-> DischargeSwitchState,
      BatteryState |-> BatteryState,
      SOC |-> SOC,
      BatteryStatus |-> IF status = "record"
                        THEN getBatteryStatus([num |-> current, den |-> 1000],
                                              SOC, BatteryState)
                        ELSE "",
      firmwareVersion |-> <<>>,
      manufactureDate |-> <<>>,
      hardwareVersion |-> <<>> ]

NoOutcome(status) == Outcome(status, Zero64, Zero64, <<>>, Zero64, 0, Zero64, Zero64)

parseBatteryInfo(data) ==
    IF ParsePanics(data) THEN NoOutcome("panic")
    ELSE LET PackVoltage == binaryToIntBigEndian(Slice(data, 8, 12))
             Voltage == binaryToIntBigEndian(Slice(data, 12, 16))
             BatteryPack == BatteryPackFrom(Slice(data, 16, 48), 0, <<>>)
             current == IntOfInt64(binaryToInt(Slice(data, 48, 52)))
             BatteryState == IntOfInt64(binaryToInt(Slice(data, 88, 90)))
             SOC == IntOfInt64(binaryToInt(Slice(data, 90, 92)))
         IN  IF ~PackVoltage.ok \/ ~Voltage.ok THEN NoOutcome("fatal")
             ELSE Outcome("record", PackVoltage.val, Voltage.val, BatteryPack, current,
                          DischargeSwitchStateOf(data.arr[69]), BatteryState, SOC)

----------------------------------------------------------------------------
(* parseVersion, main.go 181-200. *)

\* the slice expressions of parseVersion on start = data[8:], checked against
\* the capacity of start
VersionSliceAccesses == { <<0, 2>>, <<2, 4>>, <<4, 6>>, <<6, 8>> }

\* the index expressions start[i] outside the loop, checked against len(start)
VersionIndexAccesses == { 8, 9 }

\* data[8:], or an index or slice expression of parseVersion, is out of range
VersionPanics(data) ==
    \/ 8 > data.len
    \/ \E s \in VersionSliceAccesses : s[2] > Cap(data) - 8
    \/ \E i \in VersionIndexAccesses : i >= data.len - 8

RECURSIVE hardwareVersionFrom_EveryByte(_, _, _)
\* hardwareVersionFrom with a step of 1
hardwareVersionFrom_EveryByte(start, i, hardwareVersion) ==
    IF i >= start.len THEN hardwareVersion
    ELSE LET ver == start.arr[i + 1]
         IN  hardwareVersionFrom_EveryByte(start, i + 1,
                 IF ver >= 32 /\ ver <= 126
                 THEN Append(hardwareVersion, ver) ELSE hardwareVersion)

RECURSIVE hardwareVersionFrom(_, _, _)
\* main.go 192-197: the loop over start from offset i; the string is the
\* sequence of its bytes
hardwareVersionFrom(start, i, hardwareVersion) ==
    IF i >= start.len THEN hardwareVersion
    ELSE LET ver == start.arr[i + 1]
         IN  hardwareVersionFrom(start, i + 2,
                 IF ver >= 32 /\ ver <= 126
                 THEN Append(hardwareVersion, ver) ELSE hardwareVersion)

\* the three strings parseVersion returns: the version and the date as the
\* numbers formatted into them
parseVersion(data) ==
    IF VersionPanics(data) THEN NoOutcome("panic")
    ELSE LET start == [arr |-> SubSeq(data.arr, 9, Len(data.arr)), len |-> data.len - 8]
         IN  [ NoOutcome("record") EXCEPT
                 !.firmwareVersion = << Val(binaryToInt(Slice(start, 0, 2))),
                                        Val(binaryToInt(Slice(start, 2, 4))),
                                        Val(binaryToInt(Slice(start, 4, 6))) >>,
                 !.manufactureDate = << Val(binaryToInt(Slice(start, 6, 8))),
                                        start.arr[9], start.arr[10] >>,
                 !.hardwareVersion = hardwareVersionFrom(start, 0, <<>>) ]

IsRecord(r) == r.status = "record"

Dies(r) == r.status \in {"panic", "fatal"}

----------------------------------------------------------------------------
(* Buffers the transport may deliver. *)

\* values of the current field data[48:52]: 0, 1000 and -1000 (two's complement)
CurrentFields ==
    { <<0, 0, 0, 0>>, <<0, 0, 3, 232>>, <<255, 255, 252, 24>> }

\* a backing array of cap bytes, zero but for the current field
Frame(cap, cur) ==
    [k \in 1..cap |-> IF k \in 49..52 THEN cur[k - 48] ELSE 0]

\* a default-MTU payload of 20 bytes and a payload of 80 bytes in a larger
\* backing array, both short of a frame
ShortBuffers ==
    { [arr |-> Frame(20, <<0, 0, 0, 0>>), len |-> 20],
      [arr |-> Frame(FrameLen, <<0, 0, 3, 232>>), len |-> 80] }

\* whole frames
FullBuffers ==
    { [arr |-> Frame(FrameLen, cur), len |-> FrameLen] : cur \in CurrentFields }

Buffers == ShortBuffers \cup FullBuffers

\* bytes data[48:52] of a buffer that holds them
CurrentField(data) == SubSeq(data.arr, 49, 52)

\* values of the reversed fields data[8:12] and data[12:16]: 0, 52000 and 2^31
ReversedFields ==
    { <<0, 0, 0, 0>>, <<32, 203, 0, 0>>, <<0, 0, 0, 128>> }

\* a 32-byte block with the given byte pairs at the given cells, zero elsewhere
CellBlock(pairs) ==
    [k \in 1..32 |->
        LET cell == ((k - 1) \div 2) + 1
        IN  IF cell \in DOMAIN pairs THEN pairs[cell][((k - 1) % 2) + 1] ELSE 0]

\* values of the pack block data[16:48]: no cell; cell 1 at 3300 mV and cell 16
\* at 1 mV; cell 2 with a zero low byte and cell 3 at 65535
CellBlocks ==
    { CellBlock(<<>>),
      CellBlock([c \in {1, 16} |-> IF c = 1 THEN <<228, 12>> ELSE <<1, 0>>]),
      CellBlock([c \in {2, 3} |-> IF c = 2 THEN <<0, 13>> ELSE <<255, 255>>]) }

\* values of data[68]
HeatBytes == { 0, 128, 255 }

\* values of <<data[88:90], data[90:92]>>: BatteryState and SOC
StateFields ==
    { <<<<0, 0>>, <<0, 50>>>>, <<<<0, 0>>, <<0, 100>>>>, <<<<0, 4>>, <<0, 50>>>>,
      <<<<0, 1>>, <<1, 0>>>> }

\* a backing array of n bytes holding the given fields, zero elsewhere
DecodeFrame(n, pv, v, cells, cur, heat, st) ==
    [k \in 1..n |->
        IF k \in 9..12 THEN pv[k - 8]
        ELSE IF k \in 13..16 THEN v[k - 12]
        ELSE IF k \in 17..48 THEN cells[k - 16]
        ELSE IF k \in 49..52 THEN cur[k - 48]
        ELSE IF k = 69 THEN heat
        ELSE IF k \in 89..90 THEN st[1][k - 88]
        ELSE IF k \in 91..92 THEN st[2][k - 90]
        ELSE 0]

\* whole frames, of the least length and longer
DecodeBuffers ==
    { [arr |-> DecodeFrame(n, pv, v, cells, cur, heat, st), len |-> n] :
        n \in {FrameLen, FrameLen + 2}, pv \in ReversedFields, v \in ReversedFields,
        cells \in CellBlocks, cur \in CurrentFields, heat \in HeatBytes,
        st \in StateFields }

\* version blocks data[8:]: firmware 1.2.3 of 2024-12-25 with hardware bytes
\* "AB"; and an odd-length block whose even offsets hold 32, 31, 126, 127, 72, 87
\* and whose odd offsets hold printable bytes
VersionBlocks ==
    { <<0, 1, 0, 2, 0, 3, 7, 232, 12, 25, 65, 66>>,
      <<32, 65, 31, 66, 126, 67, 127, 68, 72, 48, 87>> }

\* version responses: 8 bytes of header and a version block
VersionBuffers ==
    { [arr |-> <<0, 0, 4, 1, 22, 85, 170, 26>> \o b, len |-> 8 + Len(b)] :
        b \in VersionBlocks }

----------------------------------------------------------------------------
(* readBMS, main.go 270-318. *)

NoBuffer == [arr |-> <<>>, len |-> 0]

NoLast == [some |-> FALSE, data |-> NoBuffer, handler |-> "none", window |-> {},
           decoder |-> "none", info |-> NoOutcome("none")]

Perms ==
    { p \in [1..Cardinality(Commands) -> Commands] :
        \A i, j \in 1..Cardinality(Commands) : i # j => p[i] # p[j] }

Init ==
    /\ intBits \in {32, 64}
    /\ order = <<>>
    /\ idx = 0
    /\ pc = "start"
    /\ installed = {}
    /\ window = {}
    /\ subs = [c \in Commands |-> 0]
    /\ writes = [c \in Commands |-> 0]
    /\ windows = [c \in Commands |-> 0]
    /\ unsubs = [c \in Commands |-> 0]
    /\ got = [c \in Commands |-> 0]
    /\ decodedIn = [c \in Commands |-> 0]
    /\ reports = [c \in Commands |-> {}]
    /\ delivered = 0
    /\ last = NoLast
    /\ passes = <<>>

name == order[idx]

\* `continue`, or the end of the loop body: the next key, or return
Continue ==
    /\ idx' = idx + 1
    /\ pc' = IF idx + 1 > Len(order) THEN "done" ELSE "enable"

Report(kind) == reports' = [reports EXCEPT ![name] = @ \cup {kind}]

\* main.go 271: the range statement fixes an iteration order of the map
RangeBegin ==
    /\ pc = "start"
    /\ order' \in Perms
    /\ idx' = 1
    /\ pc' = "enable"
    /\ UNCHANGED <<intBits, passes, installed, window, subs, writes, windows, unsubs, got,
                   decodedIn, reports, delivered, last>>

\* EnableStep ignoring the error of EnableNotifications: the write follows
EnableStep_ErrorIgnored ==
    /\ pc = "enable"
    /\ subs' = [subs EXCEPT ![name] = @ + 1]
    /\ \/ /\ installed' = {name}
          /\ UNCHANGED reports
       \/ /\ installed' \in {installed, {name}}
          /\ Report("enable_failed")
    /\ pc' = "write"
    /\ UNCHANGED <<intBits, passes, order, idx, window, writes, windows, unsubs, got,
                   decodedIn, delivered, last>>

\* main.go 285-298: hex.DecodeString, then EnableNotifications(notificationHandler)
EnableStep ==
    /\ pc = "enable"
    /\ IF HexDecodeString(pqCommands[name]).err
       THEN /\ Report("invalid_format")
            /\ Continue
            /\ UNCHANGED <<installed, subs>>
       ELSE /\ subs' = [subs EXCEPT ![name] = @ + 1]
            /\ \/ /\ installed' = {name}
                  /\ pc' = "write"
                  /\ UNCHANGED <<idx, reports>>
               \/ /\ installed' \in {installed, {name}}
                  /\ Report("enable_failed")
                  /\ Continue
    /\ UNCHANGED <<intBits, passes, order, window, writes, windows, unsubs, got, decodedIn,
                   delivered, last>>

\* WriteStep with the wait and the unsubscribe skipped: after a successful write
\* the loop goes straight on to the next key
WriteStep_NoWait ==
    /\ pc = "write"
    /\ writes' = [writes EXCEPT ![name] = @ + 1]
    /\ \/ /\ Report("sent")
          /\ windows' = [windows EXCEPT ![name] = @ + 1]
          /\ window' = window \cup {name}
          /\ Continue
       \/ /\ Report("send_failed")
          /\ Continue
          /\ UNCHANGED <<windows, window>>
    /\ UNCHANGED <<intBits, passes, order, installed, subs, unsubs, got, decodedIn,
                   delivered, last>>

\* main.go 300-307: WriteWithoutResponse(commandBytes)
WriteStep ==
    /\ pc = "write"
    /\ writes' = [writes EXCEPT ![name] = @ + 1]
    /\ \/ /\ Report("sent")
          /\ windows' = [windows EXCEPT ![name] = @ + 1]
          /\ window' = window \cup {name}
          /\ pc' = "sleep"
          /\ UNCHANGED idx
       \/ /\ Report("send_failed")
          /\ Continue
          /\ UNCHANGED <<windows, window>>
    /\ UNCHANGED <<intBits, passes, order, installed, subs, unsubs, got, decodedIn,
                   delivered, last>>

\* SleepStep waiting for a notification instead of for the timer
SleepStep_UntilNotified ==
    /\ pc = "sleep"
    /\ got[name] > 0
    /\ pc' = "close"
    /\ UNCHANGED <<intBits, passes, order, idx, installed, window, subs, writes, windows,
                   unsubs, got, decodedIn, reports, delivered, last>>

\* main.go 310: time.Sleep(1 * time.Second) returns
SleepStep ==
    /\ pc = "sleep"
    /\ pc' = "close"
    /\ UNCHANGED <<intBits, passes, order, idx, installed, window, subs, writes, windows,
                   unsubs, got, decodedIn, reports, delivered, last>>

\* main.go 312-317: EnableNotifications(nil)
CloseStep ==
    /\ pc = "close"
    /\ unsubs' = [unsubs EXCEPT ![name] = @ + 1]
    /\ window' = window \ {name}
    /\ \/ /\ installed' = {}
          /\ UNCHANGED reports
       \/ /\ installed' \in {installed, {}}
          /\ Report("close_failed")
    /\ Continue
    /\ UNCHANGED <<intBits, passes, order, subs, writes, windows, got, decodedIn,
                   delivered, last>>

\* main.go 273-284: the closure of iteration h runs on a delivered buffer
notificationHandler(h, data) ==
    LET info == IF h = "GET_BATTERY_INFO" THEN parseBatteryInfo(data)
                ELSE NoOutcome("none")
        decoder == IF h = "GET_BATTERY_INFO" THEN "battery" ELSE "none"
        printed == IF IsRecord(info) THEN 1 ELSE 0
    IN  /\ last' = [some |-> TRUE, data |-> data, handler |-> h, window |-> window,
                    decoder |-> decoder, info |-> info]
        /\ decodedIn' = [c \in Commands |->
                            IF c \in window THEN decodedIn[c] + printed ELSE decodedIn[c]]
        /\ pc' = IF Dies(info) THEN "crashed" ELSE pc

\* the transport delivers a notification to the installed closure
Notify ==
    /\ pc \in {"enable", "write", "sleep", "close"}
    /\ delivered < MaxNotifs
    /\ \E h \in installed, data \in Buffers :
          notificationHandler(h, data)
    /\ delivered' = delivered + 1
    /\ got' = [c \in Commands |-> IF c \in window THEN got[c] + 1 ELSE got[c]]
    /\ UNCHANGED <<intBits, passes, order, idx, installed, window, subs, writes, windows,
                   unsubs, reports>>

Sequencer == RangeBegin \/ EnableStep \/ WriteStep \/ SleepStep \/ CloseStep

Next == RangeBegin \/ EnableStep \/ WriteStep \/ SleepStep \/ CloseStep \/ Notify

Spec == Init /\ [][Next]_vars

\* A pass over a transport that accepts or refuses the calls and never delivers a
\* notification.  readBMS is one thread of control: each of its calls, and its
\* sleep, returns.
SilentSpec == Init /\ [][Sequencer]_vars /\ WF_vars(Sequencer)

\* main.go 242-250: readBMS is called for each characteristic with the BMS
\* UUID; a further call starts a new range over pqCommands
ReadBMSAgain ==
    /\ pc = "done"
    /\ Len(passes) + 1 < MaxPasses
    /\ passes' = Append(passes, order)
    /\ pc' = "start"
    /\ order' = <<>>
    /\ idx' = 0
    /\ window' = {}
    /\ subs' = [c \in Commands |-> 0]
    /\ writes' = [c \in Commands |-> 0]
    /\ windows' = [c \in Commands |-> 0]
    /\ unsubs' = [c \in Commands |-> 0]
    /\ got' = [c \in Commands |-> 0]
    /\ decodedIn' = [c \in Commands |-> 0]
    /\ reports' = [c \in Commands |-> {}]
    /\ delivered' = 0
    /\ last' = NoLast
    /\ UNCHANGED <<intBits, installed>>

\* Successive passes over a transport that never delivers a notification.
PassesSpec == Init /\ [][Sequencer \/ ReadBMSAgain]_vars

----------------------------------------------------------------------------
(* The decoders applied to a buffer, outside a polling pass. *)

DecodeInit ==
    /\ intBits \in {32, 64}
    /\ order = <<>>
    /\ idx = 0
    /\ pc = "decode"
    /\ installed = {}
    /\ window = {}
    /\ subs = [c \in Commands |-> 0]
    /\ writes = [c \in Commands |-> 0]
    /\ windows = [c \in Commands |-> 0]
    /\ unsubs = [c \in Commands |-> 0]
    /\ got = [c \in Commands |-> 0]
    /\ decodedIn = [c \in Commands |-> 0]
    /\ reports = [c \in Commands |-> {}]
    /\ delivered = 0
    /\ \E data \in DecodeBuffers \cup VersionBuffers :
          last = [NoLast EXCEPT !.data = data]
    /\ passes = <<>>

\* main.go 276: batteryInfo := parseBatteryInfo(data)
ApplyParseBatteryInfo ==
    /\ pc = "decode"
    /\ pc' = "decoded"
    /\ last' = [last EXCEPT !.some = TRUE, !.handler = "GET_BATTERY_INFO",
                            !.decoder = "battery",
                            !.info = parseBatteryInfo(last.data)]
    /\ UNCHANGED <<intBits, passes, order, idx, installed, window, subs, writes, windows,
                   unsubs, got, decodedIn, reports, delivered>>

\* parseVersion applied to a buffer (main.go has no call of it)
ApplyParseVersion ==
    /\ pc = "decode"
    /\ pc' = "decoded"
    /\ last' = [last EXCEPT !.some = TRUE, !.handler = "GET_VERSION",
                            !.decoder = "version",
                            !.info = parseVersion(last.data)]
    /\ UNCHANGED <<intBits, passes, order, idx, installed, window, subs, writes,
                   windows, unsubs, got, decodedIn, reports, delivered>>

DecodeNext == ApplyParseBatteryInfo \/ ApplyParseVersion

DecodeSpec == DecodeInit /\ [][DecodeNext]_vars

----------------------------------------------------------------------------
(* Properties. *)

\* the pass is over: readBMS returned, or the process died
Terminated == pc \in {"done", "crashed"}

\* the loop has gone past command c
Left(c) == \E i \in 1..Len(order) : order[i] = c /\ i < idx

\* C1: no failure on a command aborts the pass: the process never dies in
\* readBMS or its notification closure, and the pass ends with every catalog
\* command attempted.
C1_FailureNeverAborts ==
    /\ pc # "crashed"
    /\ pc = "done" => \A c \in Commands : subs[c] = 1

\* C2: every command whose request was written gets exactly one call of
\* EnableNotifications(nil), whatever arrived during its window: never more
\* than one, and one once the loop has left the command or the pass is over.
C2_UnsubscribeExactlyOnce ==
    \A c \in Commands :
        /\ unsubs[c] <= 1
        /\ (windows[c] > 0 /\ (Left(c) \/ Terminated)) => unsubs[c] = 1

\* C3: over a transport that never delivers a notification the pass reaches
\* Done with every command attempted once and every opened window ended by
\* the timer, unsubscribed, with no notification received.
C3_SilentPassReachesDone ==
    <>( /\ pc = "done"
        /\ \A c \in Commands :
              /\ subs[c] = 1
              /\ windows[c] = 1 => (unsubs[c] = 1 /\ got[c] = 0) )

C3_AllTimedOut ==
    /\ pc = "done"
    /\ \A c \in Commands : windows[c] = 1 /\ unsubs[c] = 1 /\ got[c] = 0

\* C4: at most one AwaitingResponse window is open and at most one closure is
\* installed at any time; an open window is the current command's, whose
\* closure is the one installed; no window is open when a command's closure is
\* installed or its request written.
C4_OneWindow ==
    /\ Cardinality(window) <= 1
    /\ Cardinality(installed) <= 1
    /\ window # {} => (window = {name} /\ installed = {name})
    /\ pc \in {"start", "enable", "write", "done"} => window = {}

C4_SecondWindowOpen ==
    /\ pc = "sleep"
    /\ idx = 2
    /\ window = {name}
    /\ windows[order[1]] = 1
    /\ unsubs[order[1]] = 1

\* C5: at most one decoded record is emitted per window of a command.
C5_OneRecordPerWindow ==
    \A c \in Commands : decodedIn[c] <= 1

\* C6: a notification received in a command's window is decoded by the decoder
\* of that command's kind: battery for GET_BATTERY_INFO, version for
\* GET_VERSION, serial number for SERIAL_NUMBER.
C6_DecoderMatchesCommand ==
    last.some =>
        /\ "GET_BATTERY_INFO" \in last.window => last.decoder = "battery"
        /\ "GET_VERSION" \in last.window => last.decoder = "version"
        /\ "SERIAL_NUMBER" \in last.window => last.decoder = "serial"
        /\ "GET_BATTERY_INFO" \notin last.window /\ last.window # {}
              => last.decoder # "battery"

\* C7: a pass processes each catalog command exactly once: no command is
\* subscribed or written twice, and when the pass is over each has had its one
\* subscribe attempt.
C7_EachCommandOnce ==
    /\ \A c \in Commands : subs[c] <= 1 /\ writes[c] <= 1
    /\ Terminated => \A c \in Commands : subs[c] = 1

\* C8: every command the loop has left has an observable outcome, a decoded
\* record or a report naming its error kind; a window that elapsed without a
\* notification is reported as a timeout and one with a notification as a
\* decoded record.
C8_OutcomeObservable ==
    \A c \in Commands :
        Left(c) =>
            /\ \/ decodedIn[c] > 0
               \/ reports[c] \cap {"invalid_format", "enable_failed", "send_failed",
                                   "close_failed", "truncated", "timeout"} # {}
            /\ (windows[c] = 1 /\ got[c] = 0) => "timeout" \in reports[c]
            /\ got[c] > 0 => decodedIn[c] > 0

\* C9: parseBatteryInfo on a buffer shorter than a frame yields a Truncated
\* error value: no record, no panic, no exit.
C9_ShortBufferTruncated ==
    (last.some /\ last.decoder = "battery" /\ last.data.len < FrameLen)
        => last.info.status = "truncated"

\* C10: the decoded Current is the 32-bit two's-complement value of
\* data[48:52] over 1000: negative when the field's top bit is set,
\* non-negative when it is clear.
C10_CurrentSigned ==
    (last.some /\ IsRecord(last.info) /\ last.data.len >= FrameLen)
        => /\ last.info.Current.num = SignExtend32(CurrentField(last.data))
           /\ last.info.Current.den = 1000
           /\ IsNegative(last.info.Current.num) <=> CurrentField(last.data)[1] >= 128

\* the battery decoder has run on the frame in last.data and returned a record
DecodedBattery ==
    pc = "decoded" /\ last.decoder = "battery" /\ IsRecord(last.info)

\* C11: BatteryStatus is "Full Charge" when SOC >= 100 or BatteryState = 4;
\* otherwise "Standby", "Charging" or "Discharging" as the current is zero,
\* positive or negative; a frame whose raw current field data[48:52] encodes a
\* negative value (and is not full) decodes to "Discharging".
C11_BatteryStatus ==
    DecodedBattery =>
        LET info == last.info
            full == Val(info.SOC) >= 100 \/ Val(info.BatteryState) = 4
            raw == SignExtend32(CurrentField(last.data))
        IN  /\ full => info.BatteryStatus = "Full Charge"
            /\ (~full /\ IsZero(info.Current.num)) => info.BatteryStatus = "Standby"
            /\ (~full /\ ~IsZero(info.Current.num) /\ ~IsNegative(info.Current.num))
                  => info.BatteryStatus = "Charging"
            /\ (~full /\ IsNegative(info.Current.num))
                  => info.BatteryStatus = "Discharging"
            /\ (~full /\ IsNegative(raw)) => info.BatteryStatus = "Discharging"

\* C12: the keys of BatteryPack are the cells k of 1..16 whose byte pair
\* data[16+2(k-1)], data[16+2(k-1)+1] is not both zero, and the value at k is
\* (second byte * 256 + first byte) / 1000: no key 0 and no zero value.
C12_BatteryPack ==
    DecodedBattery =>
        LET pack == last.info.BatteryPack
            first(k) == last.data.arr[16 + 2 * (k - 1) + 1]
            second(k) == last.data.arr[16 + 2 * (k - 1) + 2]
        IN  /\ DOMAIN pack \subseteq 1..16
            /\ 0 \notin DOMAIN pack
            /\ \A k \in 1..16 : k \in DOMAIN pack <=> ~(first(k) = 0 /\ second(k) = 0)
            /\ \A k \in DOMAIN pack :
                  /\ pack[k].num = second(k) * 256 + first(k)
                  /\ pack[k].den = 1000
                  /\ pack[k].num # 0

C12_CellsTwoAndThree ==
    /\ DecodedBattery
    /\ DOMAIN last.info.BatteryPack = {2, 3}
    /\ last.info.BatteryPack[2].num = 3328

\* C13: every call of readBMS visits the catalog commands in the same order.
C13_SameOrder ==
    \A i \in 1..Len(passes) : order # <<>> => order = passes[i]

\* the version decoder has run on the buffer in last.data and returned
DecodedVersion ==
    pc = "decoded" /\ last.decoder = "version" /\ IsRecord(last.info)

\* C14: the hardware version is the bytes at the even offsets of data[8:], in
\* order, without those outside 0x20..0x7E; nothing is substituted and no byte
\* at an odd offset appears.
C14_HardwareVersion ==
    DecodedVersion =>
        LET start == SubSeq(last.data.arr, 9, last.data.len)
            evens == [j \in 1..((Len(start) + 1) \div 2) |-> start[2 * j - 1]]
            Printable(b) == b >= 32 /\ b <= 126
        IN  last.info.hardwareVersion = SelectSeq(evens, Printable)

C14_BoundaryBytes ==
    /\ DecodedVersion
    /\ last.data.len = 19
    /\ last.info.hardwareVersion = <<32, 126, 72, 87>>

\* C15: Watt is round(Voltage * (current_raw / 1000) / 10000, 2), where
\* current_raw is the signed 32-bit value of data[48:52].
C15_Watt ==
    DecodedBattery =>
        last.info.Watt = WattOf(last.info.Voltage, SignExtend32(CurrentField(last.data)))

\* C16: when the loop has left a command whose subscribe succeeded, that
\* command's closure is no longer installed: none is when the next command
\* begins or the pass is done.
C16_NoStaleHandler ==
    \A c \in Commands : (Left(c) /\ writes[c] > 0) => c \notin installed

\* C17: per command the calls on the transport are a prefix of subscribe,
\* write, unsubscribe, each at most once: a write only after this command's
\* successful subscribe, an unsubscribe only after its write, and neither
\* after a failed subscribe.
C17_CallOrder ==
    \A c \in Commands :
        /\ subs[c] <= 1 /\ writes[c] <= subs[c] /\ unsubs[c] <= writes[c]
        /\ "enable_failed" \in reports[c] => (writes[c] = 0 /\ unsubs[c] = 0)
        /\ writes[c] > 0 => (c \in installed \/ unsubs[c] > 0 \/ Left(c))
        /\ (pc \in {"write", "sleep", "close"} /\ name = c)
              => "enable_failed" \notin reports[c]

C17_SkippedAfterFailedSubscribe ==
    /\ pc = "sleep"
    /\ idx = 2
    /\ "enable_failed" \in reports[order[1]]
    /\ writes[order[1]] = 0
    /\ writes[order[2]] = 1

\* C18: a notification is decoded as a command's response only if it is
\* delivered in that command's window, after its write and before its
\* unsubscribe.
C18_DecodedOnlyInWindow ==
    (last.some /\ last.decoder # "none") => last.handler \in last.window

\* C19: DischargeSwitchState is 1 whatever data[68] is.
C19_DischargeSwitchOn ==
    DecodedBattery => last.info.DischargeSwitchState = 1

C19_TopBitSet ==
    /\ DecodedBattery
    /\ last.data.arr[69] = 255
    /\ last.info.DischargeSwitchState = 1

\* C20: PackVoltage is data[8] + 256*data[9] + 65536*data[10] + 16777216*data[11],
\* a value of 0..2^32-1, and Voltage the same of data[12..15]; the other
\* multi-byte numeric fields are the most-significant-byte-first accumulation
\* of their bytes.
C20_ReversedRead ==
    DecodedBattery =>
        LET d == last.data.arr
            info == last.info
        IN  /\ info.PackVoltage = <<0, 0, 0, 0, d[12], d[11], d[10], d[9]>>
            /\ info.Voltage = <<0, 0, 0, 0, d[16], d[15], d[14], d[13]>>
            /\ info.BatteryState = <<0, 0, 0, 0, 0, 0, d[89], d[90]>>
            /\ info.SOC = <<0, 0, 0, 0, 0, 0, d[91], d[92]>>

====
